---- MODULE Spec2Model ----
(***************************************************************************)
(* The application herder of cbft (app_herder.go): index batches are gated *)
(* behind a condition variable while memory is over quota, queries are     *)
(* admitted or rejected, and progress hooks wake the gated workers.        *)
(*                                                                         *)
(* Threads: index workers calling onBatchExecuteStart, query handlers      *)
(* calling onQueryStart / onQueryEnd, progress threads calling the hooks,  *)
(* and the receiver of the overquota channel.  The process-wide atomics    *)
(* (cbft.CurMemoryUsed, cbft.BatchBytesAdded/Removed) and the engines'     *)
(* size callbacks are the environment.                                     *)
(*                                                                         *)
(* GrpcClient.SearchInContext (grpc_client.go): each call starts a helper  *)
(* goroutine that runs the remote Query and hands its result over the      *)
(* unbuffered resultCh, while the caller selects on ctx.Done() and on      *)
(* resultCh.                                                               *)
(***************************************************************************)
EXTENDS Integers, FiniteSets, Sequences, TLC

\* ------------------------------------------------------------ bounds
NumWorkers == 2
NumQueries == 2
NumHandles == 2
MaxBatchCalls == 1
MaxQueryCalls == 1
MaxHookCalls == 2
\* calls one worker makes on the same engine in the registry scenario
MaxRepeatCalls == 2
\* concurrent calls of GrpcClient.SearchInContext
NumSearches == 2
\* width of the machine words of the model (uint64 / int64 in the source)
WordBits == 5
\* the memQuota handed to newAppHerder
MemQuotaArg == 4

Workers == 1 .. NumWorkers
Queries == 1 .. NumQueries
Handles == 1 .. NumHandles

\* the engine whose batches worker w executes: the c of onBatchExecuteStart(c, s)
HandleOf(w) == ((w - 1) % NumHandles) + 1

\* the ratios handed to newAppHerder: <<appRatio, indexRatio, queryRatio>>, in
\* halves (2 is the ratio 1.0)
Ratios ==
  {<<2, 1, 1>>, <<2, 0, 0>>, <<2, -2, -2>>,
   <<-2, -2, 1>>, <<-2, 1, -2>>, <<-2, 0, 0>>}
\* overQuotaCh: NilCh is a nil channel, 0 an unbuffered one, 1 a buffer of one
NilCh == -1
ChanCaps == {NilCh, 0, 1}

\* the workloads explored: how many calls each index worker, each query handler
\* and the progress threads make
GateLoad ==
  [batch |-> [w \in Workers |-> MaxBatchCalls],
   query |-> [q \in Queries |-> 0],
   hook |-> MaxHookCalls]
QueryLoad ==
  [batch |-> [w \in Workers |-> 0],
   query |-> [q \in Queries |-> MaxQueryCalls],
   hook |-> 0]
MixedLoad ==
  [batch |-> [w \in Workers |-> IF w = 1 THEN MaxBatchCalls ELSE 0],
   query |-> [q \in Queries |-> IF q = 1 THEN MaxQueryCalls ELSE 0],
   hook |-> 1]
Workloads == {GateLoad, QueryLoad, MixedLoad}

\* values the environment's atomics and callbacks take
MemUsedValues == {1, 3}
PreIndexingValues == {0, 2}
EngineSizes == {0, 2}
QuerySizes == {1, 5}
QueryDepths == {0, 1}

\* ------------------------------------------------------------ machine words
Modulus == 2 ^ WordBits
Half == Modulus \div 2

\* uint64 arithmetic
U64Add(a, b) == (a + b) % Modulus
U64Sub(a, b) == (a - b + Modulus) % Modulus

\* int64(x) of a uint64 x
ToInt64(x) == IF x >= Half THEN x - Modulus ELSE x

\* int64 addition
Int64Add(a, b) == ((a + b + Half + Modulus) % Modulus) - Half

\* int64(float64(x) * ratio), the ratio given in halves: truncation toward zero
ScaleByRatio(x, r2) ==
  IF x * r2 >= 0 THEN (x * r2) \div 2 ELSE -((-(x * r2)) \div 2)

\* ------------------------------------------------------------ state
VARIABLES
  appQuota, indexQuota, queryQuota,   \* appHerder quotas
  chCap, chLen,                       \* overQuotaCh: capacity, buffered signals
  m,                                  \* holder of the mutex a.m
  cond,                               \* workers parked on a.waitCond
  waiting, indexes, runningQueryUsed, \* appHerder fields
  stats,                              \* appHerderStats
  curMemoryUsed, batchBytes, engineSize, \* environment
  wpc, wcalls,                        \* index workers
  qpc, qdepth, qsize, qcalls, qsent,  \* query handlers
  hpc, harg, hcalls,                  \* progress thread
  cpc,                                \* receiver of overQuotaCh
  workload,                           \* calls each thread may still be asked to make
  spc, sres,                          \* SearchInContext: caller position, value returned
  gpc, gval,                          \* its goroutine: position, value held for resultCh
  ctxDone                             \* ctx.Done() of the call is closed

cfgVars == <<appQuota, indexQuota, queryQuota, chCap, workload>>
herderVars == <<waiting, indexes, runningQueryUsed, stats>>
envVars == <<curMemoryUsed, batchBytes, engineSize>>
workerVars == <<wpc, wcalls>>
queryVars == <<qpc, qdepth, qsize, qcalls, qsent>>
hookVars == <<hpc, harg, hcalls>>
searchVars == <<spc, sres, gpc, gval, ctxDone>>
vars == <<cfgVars, chLen, m, cond, herderVars, envVars, workerVars,
          queryVars, hookVars, cpc, searchVars>>

Free == <<"none", 0>>
BatchT(w) == <<"batch", w>>
QueryT(q) == <<"query", q>>

\* ------------------------------------------------------------ construction
NewAppQuota(memQuota, appRatio) == ScaleByRatio(ToInt64(memQuota), appRatio)
NewIndexQuota(app, indexRatio) == ScaleByRatio(app, indexRatio)
NewQueryQuota(app, queryRatio) == ScaleByRatio(app, queryRatio)

ZeroStats ==
  [TotWaitingIn |-> 0, TotWaitingOut |-> 0,
   TotOnBatchExecuteStartBeg |-> 0, TotOnBatchExecuteStartEnd |-> 0]

newAppHerder(memQuota, appRatio, indexRatio, queryRatio, ch) ==
  /\ appQuota = NewAppQuota(memQuota, appRatio)
  /\ indexQuota = NewIndexQuota(appQuota, indexRatio)
  /\ queryQuota = NewQueryQuota(appQuota, queryRatio)
  /\ chCap = ch
  /\ chLen = 0
  /\ m = Free
  /\ cond = {}
  /\ waiting = 0
  /\ indexes = {}
  /\ runningQueryUsed = 0
  /\ stats = ZeroStats

\* no call of SearchInContext has been made
Searches == 1 .. NumSearches

InitSearch ==
  /\ spc = [c \in Searches |-> "idle"]
  /\ sres = [c \in Searches |-> "none"]
  /\ gpc = [c \in Searches |-> "none"]
  /\ gval = [c \in Searches |-> "none"]
  /\ ctxDone = [c \in Searches |-> FALSE]

InitThreads ==
  /\ InitSearch
  /\ wpc = [w \in Workers |-> "idle"]
  /\ wcalls = [w \in Workers |-> 0]
  /\ qpc = [q \in Queries |-> "idle"]
  /\ qdepth = [q \in Queries |-> 0]
  /\ qsize = [q \in Queries |-> 0]
  /\ qcalls = [q \in Queries |-> 0]
  /\ qsent = [q \in Queries |-> 0]
  /\ hpc = "idle"
  /\ harg = 0
  /\ hcalls = 0
  /\ cpc = "away"

InitEnv ==
  /\ curMemoryUsed \in MemUsedValues
  /\ batchBytes \in PreIndexingValues
  /\ engineSize \in [Handles -> EngineSizes]

Init ==
  /\ \E r \in Ratios, ch \in ChanCaps :
       newAppHerder(MemQuotaArg, r[1], r[2], r[3], ch)
  /\ InitEnv
  /\ InitThreads
  /\ workload \in Workloads

\* ------------------------------------------------------------ environment
\* the resident-set sampler stores cbft.CurMemoryUsed
SetCurMemoryUsed ==
  /\ \E v \in MemUsedValues \ {curMemoryUsed} : curMemoryUsed' = v
  /\ UNCHANGED <<cfgVars, searchVars, chLen, m, cond, herderVars, batchBytes, engineSize,
                 workerVars, queryVars, hookVars, cpc>>

\* the batching layer moves cbft.BatchBytesAdded / cbft.BatchBytesRemoved
SetBatchBytes ==
  /\ \E v \in PreIndexingValues \ {batchBytes} : batchBytes' = v
  /\ UNCHANGED <<cfgVars, searchVars, chLen, m, cond, herderVars, curMemoryUsed, engineSize,
                 workerVars, queryVars, hookVars, cpc>>

\* an engine's size callback (mossSize, scorchSize) reports another value
SetEngineSize ==
  /\ \E h \in Handles :
       \E v \in EngineSizes \ {engineSize[h]} :
         engineSize' = [engineSize EXCEPT ![h] = v]
  /\ UNCHANGED <<cfgVars, searchVars, chLen, m, cond, herderVars, curMemoryUsed, batchBytes,
                 workerVars, queryVars, hookVars, cpc>>

\* ------------------------------------------------------------ memory accounting
RECURSIVE SumSizes(_)
SumSizes(S) ==
  IF S = {} THEN 0
  ELSE LET h == CHOOSE x \in S : TRUE
       IN U64Add(engineSize[h], SumSizes(S \ {h}))

\* mutant: the sizes of closed and never registered engines are counted too
indexingMemoryAllMut == SumSizes(Handles)

indexingMemoryLOCKED == SumSizes(indexes)

preIndexingMemoryLOCKED == batchBytes

IndexingMemUsed == Int64Add(ToInt64(curMemoryUsed), ToInt64(preIndexingMemoryLOCKED))

\* mutant: the appQuota test of the last line is left out
overMemQuotaIndexOnlyMut ==
  IF indexingMemoryLOCKED = 0 THEN FALSE
  ELSE indexQuota > 0 /\ IndexingMemUsed > indexQuota

\* mutant: the appQuota test takes any non-zero appQuota as enabled
overMemQuotaAppSignMut ==
  IF indexingMemoryLOCKED = 0 THEN FALSE
  ELSE IF indexQuota > 0 /\ IndexingMemUsed > indexQuota THEN TRUE
  ELSE appQuota # 0 /\ IndexingMemUsed > appQuota

overMemQuotaForIndexingLOCKED ==
  IF indexingMemoryLOCKED = 0 THEN FALSE
  ELSE IF indexQuota > 0 /\ IndexingMemUsed > indexQuota THEN TRUE
  ELSE appQuota > 0 /\ IndexingMemUsed > appQuota

\* ------------------------------------------------------------ overQuotaCh
\* a.overQuotaCh <- struct{}{} can complete: a free buffer slot, or (unbuffered)
\* a receiver blocked in the receive
CanSend ==
  /\ chCap # NilCh
  /\ IF chCap = 0 THEN cpc = "recv" ELSE chLen < chCap

ChanSend ==
  IF chCap = 0 THEN cpc' = "away" /\ chLen' = chLen
  ELSE chLen' = chLen + 1 /\ cpc' = cpc

\* ------------------------------------------------------------ mutex and stats
\* mutant: the unlock is forgotten
UnlockMut(t) == m

\* a.m.Unlock() by thread t
Unlock(t) == IF m = t THEN Free ELSE m

\* atomic.AddUint64(&a.stats.X, 1)
AddBeg == [stats EXCEPT !.TotOnBatchExecuteStartBeg = @ + 1]

\* mutant: TotOnBatchExecuteStartEnd is not counted
AddEndMut == stats

AddEnd == [stats EXCEPT !.TotOnBatchExecuteStartEnd = @ + 1]

\* mutant: TotWaitingIn is not counted
AddWaitingInMut == stats

AddWaitingIn == [stats EXCEPT !.TotWaitingIn = @ + 1]

\* mutant: the wake-up is booked by taking one off TotWaitingIn
AddWaitingOutMut == [stats EXCEPT !.TotWaitingIn = @ - 1]

AddWaitingOut == [stats EXCEPT !.TotWaitingOut = @ + 1]

\* ------------------------------------------------------------ condition variable
\* a.waitCond.Wait(): join the notify list and release the mutex
CondWait(w) ==
  /\ cond' = cond \cup {w}
  /\ m' = Unlock(BatchT(w))
  /\ wpc' = [wpc EXCEPT ![w] = "parked"]

\* a.waitCond.Broadcast(): every parked worker becomes runnable
Broadcast ==
  /\ cond' = {}
  /\ wpc' = [w \in Workers |-> IF w \in cond THEN "woken" ELSE wpc[w]]

\* mutant: the guard is off by one
awakeWaitersGuardMut ==
  IF waiting > 1 THEN Broadcast ELSE UNCHANGED <<cond, wpc>>

awakeWaitersLOCKED ==
  IF waiting > 0 THEN Broadcast ELSE UNCHANGED <<cond, wpc>>

\* ------------------------------------------------------------ onBatchExecuteStart
\* mutant: the bypass tests the wrong quota
IndexBypassMut == appQuota < 0

IndexBypass == indexQuota < 0

\* entry: the bypass test and the atomic add of TotOnBatchExecuteStartBeg
BatchCall(w) ==
  /\ wpc[w] = "idle"
  /\ wcalls[w] < workload.batch[w]
  /\ wcalls' = [wcalls EXCEPT ![w] = @ + 1]
  /\ IF IndexBypass
     THEN UNCHANGED <<stats, wpc>>
     ELSE /\ stats' = AddBeg
          /\ wpc' = [wpc EXCEPT ![w] = "lock"]
  /\ UNCHANGED <<cfgVars, searchVars, chLen, m, cond, waiting, indexes, runningQueryUsed,
                 envVars, queryVars, hookVars, cpc>>

\* a.m.Lock(); a.indexes[c] = s
BatchLock(w) ==
  /\ wpc[w] = "lock"
  /\ m = Free
  /\ m' = BatchT(w)
  /\ indexes' = indexes \cup {HandleOf(w)}
  /\ wpc' = [wpc EXCEPT ![w] = "check"]
  /\ UNCHANGED <<cfgVars, searchVars, chLen, cond, waiting, runningQueryUsed, stats,
                 envVars, wcalls, queryVars, hookVars, cpc>>

\* one evaluation of the loop condition, under the mutex
BatchCheck(w) ==
  /\ wpc[w] = "check"
  /\ m = BatchT(w)
  /\ IF overMemQuotaForIndexingLOCKED
     THEN /\ stats' = AddWaitingIn
          /\ waiting' = waiting + 1
          /\ IF chCap = NilCh
             THEN CondWait(w)
             ELSE wpc' = [wpc EXCEPT ![w] = "send"] /\ UNCHANGED <<m, cond>>
     ELSE /\ m' = Unlock(BatchT(w))
          /\ wpc' = [wpc EXCEPT ![w] = "end"]
          /\ UNCHANGED <<stats, waiting, cond>>
  /\ UNCHANGED <<cfgVars, searchVars, chLen, indexes, runningQueryUsed, envVars, wcalls,
                 queryVars, hookVars, cpc>>

\* a.overQuotaCh <- struct{}{} with the mutex held, then a.waitCond.Wait()
BatchSend(w) ==
  /\ wpc[w] = "send"
  /\ m = BatchT(w)
  /\ CanSend
  /\ ChanSend
  /\ CondWait(w)
  /\ UNCHANGED <<cfgVars, searchVars, herderVars, envVars, wcalls, queryVars, hookVars>>

\* Wait() returns with the mutex reacquired; a.waiting--; TotWaitingOut++
BatchWake(w) ==
  /\ wpc[w] = "woken"
  /\ m = Free
  /\ m' = BatchT(w)
  /\ waiting' = waiting - 1
  /\ stats' = AddWaitingOut
  /\ wpc' = [wpc EXCEPT ![w] = "check"]
  /\ UNCHANGED <<cfgVars, searchVars, chLen, cond, indexes, runningQueryUsed, envVars, wcalls, queryVars, hookVars, cpc>>

\* after a.m.Unlock(): the atomic add of TotOnBatchExecuteStartEnd, and return
BatchEnd(w) ==
  /\ wpc[w] = "end"
  /\ stats' = AddEnd
  /\ wpc' = [wpc EXCEPT ![w] = "idle"]
  /\ UNCHANGED <<cfgVars, searchVars, chLen, m, cond, waiting, indexes, runningQueryUsed,
                 envVars, wcalls, queryVars, hookVars, cpc>>

\* ------------------------------------------------------------ onQueryStart
\* mutant: the bypass tests the wrong quota
QueryBypassMut == appQuota < 0

QueryBypass == queryQuota < 0

QueryMemUsed(size) == Int64Add(ToInt64(curMemoryUsed), ToInt64(size))

\* the two rejection tests of onQueryStart, in the order of the source
QueryOverQuota(size) ==
  IF queryQuota > 0 /\ QueryMemUsed(size) > queryQuota THEN TRUE
  ELSE appQuota > 0 /\ QueryMemUsed(size) > appQuota

\* mutant: the quotas are tested even when no query is accounted for
QuotaCheckedNoEscapeMut(q) == qdepth[q] = 0

\* mutant: the quotas are tested for nested queries too
QuotaCheckedAnyDepthMut(q) == runningQueryUsed > 0

\* if depth == 0 && a.runningQueryUsed > 0: the quotas are tested
QuotaChecked(q) == qdepth[q] = 0 /\ runningQueryUsed > 0

\* mutant: the rejection returns without its send
RejectTargetMut == "rejected"

\* where a rejecting onQueryStart goes after a.m.Unlock()
RejectTarget == IF chCap # NilCh THEN "send" ELSE "rejected"

\* entry of onQueryStart(depth, size): the bypass test
QueryStart(q) ==
  /\ qpc[q] = "idle"
  /\ qcalls[q] < workload.query[q]
  /\ \E d \in QueryDepths, s \in QuerySizes :
       /\ qdepth' = [qdepth EXCEPT ![q] = d]
       /\ qsize' = [qsize EXCEPT ![q] = s]
  /\ qcalls' = [qcalls EXCEPT ![q] = @ + 1]
  /\ qsent' = [qsent EXCEPT ![q] = 0]
  /\ qpc' = [qpc EXCEPT ![q] = IF QueryBypass THEN "running" ELSE "lock"]
  /\ UNCHANGED <<cfgVars, searchVars, chLen, m, cond, herderVars, envVars, workerVars,
                 hookVars, cpc>>

\* a.m.Lock() of onQueryStart
QueryLock(q) ==
  /\ qpc[q] = "lock"
  /\ m = Free
  /\ m' = QueryT(q)
  /\ qpc' = [qpc EXCEPT ![q] = "check"]
  /\ UNCHANGED <<cfgVars, searchVars, chLen, cond, herderVars, envVars, workerVars,
                 qdepth, qsize, qcalls, qsent, hookVars, cpc>>

\* the admission decision under the mutex, up to a.m.Unlock()
QueryCheck(q) ==
  /\ qpc[q] = "check"
  /\ m = QueryT(q)
  /\ IF QuotaChecked(q) /\ QueryOverQuota(qsize[q])
     THEN /\ qpc' = [qpc EXCEPT ![q] = RejectTarget]
          /\ UNCHANGED runningQueryUsed
     ELSE /\ runningQueryUsed' = U64Add(runningQueryUsed, qsize[q])
          /\ qpc' = [qpc EXCEPT ![q] = "running"]
  /\ m' = Unlock(QueryT(q))
  /\ UNCHANGED <<cfgVars, searchVars, chLen, cond, waiting, indexes, stats, envVars,
                 workerVars, qdepth, qsize, qcalls, qsent, hookVars, cpc>>

\* a.overQuotaCh <- struct{}{} of a rejected query, after the unlock
QuerySend(q) ==
  /\ qpc[q] = "send"
  /\ CanSend
  /\ ChanSend
  /\ qsent' = [qsent EXCEPT ![q] = @ + 1]
  /\ qpc' = [qpc EXCEPT ![q] = "rejected"]
  /\ UNCHANGED <<cfgVars, searchVars, m, cond, herderVars, envVars, workerVars,
                 qdepth, qsize, qcalls, hookVars>>

\* return rest.ErrorSearchReqRejected: the query never runs
QueryRejected(q) ==
  /\ qpc[q] = "rejected"
  /\ qpc' = [qpc EXCEPT ![q] = "idle"]
  /\ UNCHANGED <<cfgVars, searchVars, chLen, m, cond, herderVars, envVars, workerVars,
                 qdepth, qsize, qcalls, qsent, hookVars, cpc>>

\* ------------------------------------------------------------ onQueryEnd
\* the admitted query finished: the caller fires EventQueryEnd with its size
QueryEndCall(q) ==
  /\ qpc[q] = "running"
  /\ qpc' = [qpc EXCEPT ![q] = "ending"]
  /\ UNCHANGED <<cfgVars, searchVars, chLen, m, cond, herderVars, envVars, workerVars,
                 qdepth, qsize, qcalls, qsent, hookVars, cpc>>

\* onQueryEnd: Lock, subtract, awakeWaitersLOCKED, Unlock
onQueryEnd(q) ==
  /\ qpc[q] = "ending"
  /\ m = Free
  /\ runningQueryUsed' = U64Sub(runningQueryUsed, qsize[q])
  /\ awakeWaitersLOCKED
  /\ qpc' = [qpc EXCEPT ![q] = "idle"]
  /\ UNCHANGED <<cfgVars, searchVars, chLen, m, waiting, indexes, stats, envVars, wcalls,
                 qdepth, qsize, qcalls, qsent, hookVars, cpc>>

\* ------------------------------------------------------------ progress hooks
\* a hook is called: the caller is now at a.m.Lock()
AwakeWaitersCall ==
  /\ hpc = "idle"
  /\ hcalls < workload.hook
  /\ hpc' = "awake"
  /\ hcalls' = hcalls + 1
  /\ UNCHANGED <<cfgVars, searchVars, chLen, m, cond, herderVars, envVars, workerVars,
                 queryVars, harg, cpc>>

onPersisterProgress == AwakeWaitersCall

onMergerProgress == AwakeWaitersCall

onMemoryUsedDropped == \E cur \in MemUsedValues, prev \in MemUsedValues : AwakeWaitersCall

onCloseCall ==
  /\ hpc = "idle"
  /\ hcalls < workload.hook
  /\ \E h \in Handles : harg' = h
  /\ hpc' = "close"
  /\ hcalls' = hcalls + 1
  /\ UNCHANGED <<cfgVars, searchVars, chLen, m, cond, herderVars, envVars, workerVars,
                 queryVars, cpc>>

\* mutant: the close stores the handle instead of deleting it
DeleteIndexStoresMut(c) == indexes \cup {c}

\* mutant: the close empties the registry
DeleteIndexMut(c) == {}

\* delete(a.indexes, c)
DeleteIndex(c) == indexes \ {c}

\* awakeWaiters: Lock, awakeWaitersLOCKED, Unlock
awakeWaiters ==
  /\ hpc = "awake"
  /\ m = Free
  /\ awakeWaitersLOCKED
  /\ hpc' = "idle"
  /\ UNCHANGED <<cfgVars, searchVars, chLen, m, herderVars, envVars, wcalls, queryVars,
                 harg, hcalls, cpc>>

\* onClose: Lock, delete(a.indexes, c), awakeWaitersLOCKED, Unlock
onClose ==
  /\ hpc = "close"
  /\ m = Free
  /\ indexes' = DeleteIndex(harg)
  /\ awakeWaitersLOCKED
  /\ hpc' = "idle"
  /\ harg' = 0
  /\ UNCHANGED <<cfgVars, searchVars, chLen, m, waiting, runningQueryUsed, stats, envVars,
                 wcalls, queryVars, hcalls, cpc>>

\* ------------------------------------------------------------ receiver of overQuotaCh
\* the receiver comes to its receive on the channel
ConsumerReady ==
  /\ chCap # NilCh
  /\ cpc = "away"
  /\ cpc' = "recv"
  /\ UNCHANGED <<cfgVars, searchVars, chLen, m, cond, herderVars, envVars, workerVars,
                 queryVars, hookVars>>

\* it takes a buffered signal
ConsumerRecv ==
  /\ cpc = "recv"
  /\ chLen > 0
  /\ chLen' = chLen - 1
  /\ cpc' = "away"
  /\ UNCHANGED <<cfgVars, searchVars, m, cond, herderVars, envVars, workerVars, queryVars,
                 hookVars>>

\* it reacts by calling a progress hook itself
ConsumerHookCall ==
  /\ chCap # NilCh
  /\ cpc = "away"
  /\ hcalls < workload.hook
  /\ hcalls' = hcalls + 1
  /\ cpc' = "hook"
  /\ UNCHANGED <<cfgVars, searchVars, chLen, m, cond, herderVars, envVars, workerVars,
                 queryVars, hpc, harg>>

ConsumerHook ==
  /\ cpc = "hook"
  /\ m = Free
  /\ awakeWaitersLOCKED
  /\ cpc' = "away"
  /\ UNCHANGED <<cfgVars, searchVars, chLen, m, herderVars, envVars, wcalls, queryVars,
                 hookVars>>

\* ------------------------------------------------------------ specification
Environment == SetCurMemoryUsed \/ SetBatchBytes \/ SetEngineSize

onBatchExecuteStart(w) ==
  \/ BatchCall(w)
  \/ BatchLock(w)
  \/ BatchCheck(w)
  \/ BatchSend(w)
  \/ BatchWake(w)
  \/ BatchEnd(w)

onQueryStart(q) ==
  \/ QueryStart(q)
  \/ QueryLock(q)
  \/ QueryCheck(q)
  \/ QuerySend(q)
  \/ QueryRejected(q)

Hooks ==
  \/ onPersisterProgress
  \/ onMergerProgress
  \/ onMemoryUsedDropped
  \/ onCloseCall
  \/ awakeWaiters
  \/ onClose

Consumer == ConsumerReady \/ ConsumerRecv \/ ConsumerHookCall \/ ConsumerHook

Next ==
  \/ \E w \in Workers : onBatchExecuteStart(w)
  \/ \E q \in Queries : onQueryStart(q) \/ QueryEndCall(q) \/ onQueryEnd(q)
  \/ Hooks
  \/ Consumer
  \/ Environment

Spec == Init /\ [][Next]_vars

\* The index gate on its own: the workers, the progress threads, the receiver
\* of the overquota channel and the environment, from the herder with every
\* quota positive (appQuota 4, indexQuota 2) and an overquota channel.
PairLoad ==
  [batch |-> [w \in Workers |-> MaxBatchCalls],
   query |-> [q \in Queries |-> 0],
   hook |-> 1]
SoloLoad ==
  [batch |-> [w \in Workers |-> IF w = 1 THEN MaxBatchCalls ELSE 0],
   query |-> [q \in Queries |-> 0],
   hook |-> MaxHookCalls]

InitGate ==
  /\ \E ch \in ChanCaps \ {NilCh} : newAppHerder(MemQuotaArg, 2, 1, 1, ch)
  /\ InitEnv
  /\ InitThreads
  /\ workload \in {PairLoad, SoloLoad}

NextGate ==
  \/ \E w \in Workers : onBatchExecuteStart(w)
  \/ Hooks
  \/ Consumer
  \/ Environment

\* Scheduling: a goroutine that can run does run, and sync.Mutex does not
\* starve a goroutine blocked in Lock() (strong fairness of the acquisitions).
\* Nothing obliges a caller to make a call, the environment to change, or the
\* receiver of the overquota channel to come and receive.
FairGate ==
  /\ \A w \in Workers :
       /\ SF_vars(BatchLock(w))
       /\ WF_vars(BatchCheck(w))
       /\ WF_vars(BatchSend(w))
       /\ SF_vars(BatchWake(w))
       /\ WF_vars(BatchEnd(w))
  /\ SF_vars(awakeWaiters)
  /\ SF_vars(onClose)
  /\ SF_vars(ConsumerHook)

SpecGate == InitGate /\ [][NextGate]_vars /\ FairGate

\* The registry on its own: worker 1 executes several batches on its engine,
\* worker 2 one batch on the other, with closes and progress events between;
\* with the gate enabled and with indexing bypassed.
RepeatLoad ==
  [batch |-> [w \in Workers |-> IF w = 1 THEN MaxRepeatCalls ELSE 1],
   query |-> [q \in Queries |-> 0],
   hook |-> MaxHookCalls]

InitRegistry ==
  /\ \E r \in {<<2, 1, 1>>, <<2, -2, -2>>}, ch \in ChanCaps :
       newAppHerder(MemQuotaArg, r[1], r[2], r[3], ch)
  /\ InitEnv
  /\ InitThreads
  /\ workload = RepeatLoad

SpecRegistry == InitRegistry /\ [][NextGate]_vars

\* The query accounting with callers that do not pair their events: the
\* EventQueryEnd of a query may carry another size than its EventQueryStart.
QueryEndAnySize(q) ==
  /\ qpc[q] = "running"
  /\ \E s \in QuerySizes : qsize' = [qsize EXCEPT ![q] = s]
  /\ qpc' = [qpc EXCEPT ![q] = "ending"]
  /\ UNCHANGED <<cfgVars, searchVars, chLen, m, cond, herderVars, envVars, workerVars,
                 qdepth, qcalls, qsent, hookVars, cpc>>

InitMismatch ==
  /\ \E r \in {<<2, 1, 1>>, <<2, 0, 0>>}, ch \in ChanCaps :
       newAppHerder(MemQuotaArg, r[1], r[2], r[3], ch)
  /\ InitEnv
  /\ InitThreads
  /\ workload = QueryLoad

NextMismatch ==
  \/ \E q \in Queries : onQueryStart(q) \/ QueryEndAnySize(q) \/ onQueryEnd(q)
  \/ ConsumerReady
  \/ ConsumerRecv
  \/ SetCurMemoryUsed

SpecMismatch == InitMismatch /\ [][NextMismatch]_vars

\* ------------------------------------------------------------ SearchInContext
herderFrame ==
  <<cfgVars, chLen, m, cond, herderVars, envVars, workerVars, queryVars,
    hookVars, cpc>>

\* what the caller was given: a nil request, a context whose deadline leaves
\* less than RemoteRequestOverhead, or a call that goes through
SearchInputs == {"nilreq", "late", "go"}

\* SearchInContext up to the select: the two early returns, else
\* make(chan *bleve.SearchResult) and go func()
SearchCall(c) ==
  /\ spc[c] = "idle"
  /\ \E in \in SearchInputs :
       IF in = "nilreq"
       THEN /\ spc' = [spc EXCEPT ![c] = "returned"]
            /\ sres' = [sres EXCEPT ![c] = "noreq"]
            /\ UNCHANGED gpc
       ELSE IF in = "late"
       THEN /\ spc' = [spc EXCEPT ![c] = "returned"]
            /\ sres' = [sres EXCEPT ![c] = "deadline"]
            /\ UNCHANGED gpc
       ELSE /\ spc' = [spc EXCEPT ![c] = "select"]
            /\ gpc' = [gpc EXCEPT ![c] = "query"]
            /\ UNCHANGED sres
  /\ UNCHANGED <<herderFrame, gval, ctxDone>>

\* the context of call c is cancelled or its deadline passes
CtxCancel(c) ==
  /\ ~ctxDone[c]
  /\ ctxDone' = [ctxDone EXCEPT ![c] = TRUE]
  /\ UNCHANGED <<herderFrame, spc, sres, gpc, gval>>

\* rv, err := g.Query(ctx, sr) returns in the goroutine, which comes to its
\* send on resultCh
QueryReturns(c) ==
  /\ gpc[c] = "query"
  /\ \E v \in {"result", "error"} : gval' = [gval EXCEPT ![c] = v]
  /\ gpc' = [gpc EXCEPT ![c] = "send"]
  /\ UNCHANGED <<herderFrame, spc, sres, ctxDone>>

\* case <-ctx.Done(): the caller returns the context's error
SelectCtxDone(c) ==
  /\ spc[c] = "select"
  /\ ctxDone[c]
  /\ spc' = [spc EXCEPT ![c] = "returned"]
  /\ sres' = [sres EXCEPT ![c] = "ctxerr"]
  /\ UNCHANGED <<herderFrame, gpc, gval, ctxDone>>

\* case rv := <-resultCh: the rendezvous with the goroutine's send, after
\* which the goroutine returns
SelectResult(c) ==
  /\ spc[c] = "select"
  /\ gpc[c] = "send"
  /\ spc' = [spc EXCEPT ![c] = "returned"]
  /\ sres' = [sres EXCEPT ![c] = gval[c]]
  /\ gpc' = [gpc EXCEPT ![c] = "done"]
  /\ UNCHANGED <<herderFrame, gval, ctxDone>>

SearchInContext(c) ==
  \/ SearchCall(c)
  \/ QueryReturns(c)
  \/ SelectCtxDone(c)
  \/ SelectResult(c)

InitSearchCalls ==
  /\ newAppHerder(MemQuotaArg, 2, 1, 1, NilCh)
  /\ curMemoryUsed = 1
  /\ batchBytes = 0
  /\ engineSize = [h \in Handles |-> 0]
  /\ InitThreads
  /\ workload = QueryLoad

NextSearch == \E c \in Searches : SearchInContext(c) \/ CtxCancel(c)

\* Scheduling: the remote Query returns, and a select with a ready case takes
\* one; nothing obliges a caller to call or a context to be cancelled.
FairSearch ==
  \A c \in Searches :
    /\ WF_vars(QueryReturns(c))
    /\ WF_vars(SelectCtxDone(c) \/ SelectResult(c))

SpecSearch == InitSearchCalls /\ [][NextSearch]_vars /\ FairSearch

\* ------------------------------------------------------------ vocabulary of the claims
\* worker w is inside onBatchExecuteStart
InsideGate(w) == wpc[w] # "idle"

NoWorkerInside == \A w \in Workers : ~InsideGate(w)

\* worker w is in the wait section: a.waiting++ done, a.waiting-- not yet
InWaitSection(w) == wpc[w] \in {"send", "parked", "woken"}

RECURSIVE SumCalls(_)
SumCalls(S) ==
  IF S = {} THEN 0
  ELSE LET w == CHOOSE x \in S : TRUE IN wcalls[w] + SumCalls(S \ {w})

\* calls of onBatchExecuteStart made so far, and those that have returned
BatchCallsMade == SumCalls(Workers)
BatchCallsDone == BatchCallsMade - Cardinality({w \in Workers : InsideGate(w)})

\* the send of thread t may block: the channel is unbuffered or its buffer is full
SendMayBlock == chCap = 0 \/ chLen >= chCap

\* a progress hook (or onClose, onQueryEnd) has been called and is at a.m.Lock()
HookInvoked ==
  \/ hpc \in {"awake", "close"}
  \/ cpc = "hook"
  \/ \E q \in Queries : qpc[q] = "ending"

\* ------------------------------------------------------------ C1
\* C1: whenever a worker is parked in the gate, a progress hook has been called
\* and the over-quota predicate is false from then on, the worker eventually
\* returns from onBatchExecuteStart, and eventually waiting == 0 with
\* TotWaitingIn == TotWaitingOut (fair scheduling, no further hook call needed).
C1_OneHookWakesAll ==
  \A w \in Workers :
    []((w \in cond /\ HookInvoked /\ []~overMemQuotaForIndexingLOCKED) =>
         /\ <>(wpc[w] = "idle")
         /\ <>(waiting = 0 /\ stats.TotWaitingIn = stats.TotWaitingOut))

\* ------------------------------------------------------------ C2
\* C2: no thread executes a send on the overquota channel that may block
\* (channel unbuffered or full) while it holds the herder mutex, neither an
\* index worker about to wait nor a rejected query.
C2_NoBlockingSendUnderMutex ==
  /\ \A w \in Workers : (wpc[w] = "send" /\ SendMayBlock) => m # BatchT(w)
  /\ \A q \in Queries : (qpc[q] = "send" /\ SendMayBlock) => m # QueryT(q)

\* ------------------------------------------------------------ C3
\* C3: every thread that acquires the herder mutex eventually releases it, and
\* every call of a progress hook, of onClose and of onQueryEnd eventually
\* returns, whatever the receiver of the overquota channel does.
C3_MutexAlwaysReleased ==
  /\ \A w \in Workers : [](m = BatchT(w) => <>(m # BatchT(w)))
  /\ \A q \in Queries : [](m = QueryT(q) => <>(m # QueryT(q)))
  /\ [](HookInvoked => <>(~HookInvoked))

C5_MatchedPairsLeaveZero ==
  (\A q \in Queries : qpc[q] = "idle") => runningQueryUsed = 0

\* ------------------------------------------------------------ C6
\* the steps of a rejecting onQueryStart of handler q: the decision, the send,
\* the return of the error
RejectingStep(q) ==
  /\ qpc[q] \in {"check", "send", "rejected"}
  /\ qpc'[q] \in {"send", "rejected", "idle"}
  /\ qpc'[q] # qpc[q]

\* C6: a rejected onQueryStart(0, size) happens only with queryQuota >= 0,
\* depth 0, runningQueryUsed > 0 and RSS + size over a positive queryQuota or
\* appQuota; it leaves runningQueryUsed, the registry, waiting and the stats
\* unchanged, and before it returns the error it has performed exactly one
\* send on the overquota channel (none without a channel), with the mutex
\* released.
C6_RejectionFrame ==
  /\ [](\A q \in Queries :
          /\ qpc[q] = "rejected" => qsent[q] = (IF chCap = NilCh THEN 0 ELSE 1)
          /\ qpc[q] = "send" => (m # QueryT(q) /\ qsent[q] = 0 /\ chCap # NilCh)
          /\ qpc[q] \in {"send", "rejected"} =>
               (queryQuota >= 0 /\ qdepth[q] = 0))
  /\ [][\A q \in Queries :
          RejectingStep(q) =>
            /\ UNCHANGED <<runningQueryUsed, indexes, waiting, stats>>
            /\ qpc[q] = "check" =>
                 /\ runningQueryUsed > 0
                 /\ \/ queryQuota > 0 /\ curMemoryUsed + qsize[q] > queryQuota
                    \/ appQuota > 0 /\ curMemoryUsed + qsize[q] > appQuota]_vars

\* a rejected call has sent its one signal and is returning the error
C6_Witness ==
  \E q \in Queries : qpc[q] = "rejected" /\ qsent[q] = 1 /\ runningQueryUsed > 0

\* ------------------------------------------------------------ C7
\* handler q is past a.m.Lock() of onQueryStart and cannot take a step
QuerySuspended(q) ==
  /\ qpc[q] \in {"check", "send", "rejected"}
  /\ ~ENABLED (QueryCheck(q) \/ QuerySend(q) \/ QueryRejected(q))

\* C7 as claimed: once onQueryStart has the mutex it returns without any
\* further suspension, whatever the state of the overquota channel.
C7_QueriesNeverSuspend == \A q \in Queries : ~QuerySuspended(q)

\* C7 as amended: the only suspension of onQueryStart past the mutex is the
\* send of a rejected query on a channel that cannot take it, made with the
\* mutex released; no step of a query handler changes waiting or parks on the
\* condition variable.
C7_OnlyTheSendSuspends ==
  /\ [](\A q \in Queries :
          QuerySuspended(q) =>
            (qpc[q] = "send" /\ ~CanSend /\ chCap # NilCh /\ m # QueryT(q)))
  /\ [](\A q \in Queries : m = QueryT(q) => qpc[q] = "check")
  /\ [][(\E q \in Queries : qpc'[q] # qpc[q]) =>
          (waiting' = waiting /\ cond' \subseteq cond)]_vars

\* a rejected query is suspended in its send, the mutex free
C7_Witness ==
  \E q \in Queries : qpc[q] = "send" /\ ~CanSend /\ m = Free

\* ------------------------------------------------------------ C8
\* C8: with indexQuota < 0 no call of onBatchExecuteStart takes the mutex, waits
\* or sends: no worker is ever past the entry, waiting and TotWaitingIn stay 0,
\* nobody is parked on the condition variable.
C8_BypassNeverGates ==
  indexQuota < 0 =>
    /\ \A w \in Workers : wpc[w] = "idle" /\ m # BatchT(w)
    /\ waiting = 0
    /\ cond = {}
    /\ stats.TotWaitingIn = 0

\* bypassed calls were made while memory was over every positive quota
C8_Witness ==
  /\ indexQuota < 0
  /\ appQuota > 0
  /\ \A w \in Workers : wcalls[w] = MaxBatchCalls
  /\ IndexingMemUsed > appQuota
  /\ \E h \in Handles : engineSize[h] > 0

\* ------------------------------------------------------------ C9
\* C9 as claimed: every completed call of onBatchExecuteStart, bypassed or not,
\* increments TotOnBatchExecuteStartBeg and TotOnBatchExecuteStartEnd by one
\* (so Beg == End == 1 after one bypassed call), and a bypassed call leaves
\* TotWaitingIn at 0.
C9_EveryCallCounted ==
  /\ stats.TotOnBatchExecuteStartEnd = BatchCallsDone
  /\ NoWorkerInside => stats.TotOnBatchExecuteStartBeg = BatchCallsMade
  /\ indexQuota < 0 => stats.TotWaitingIn = 0

\* C9 as amended: with indexQuota < 0 a call changes no counter (Beg == End ==
\* TotWaitingIn == 0 after any number of calls); with indexQuota >= 0 every
\* call increments Beg by one at its entry and End by one at its return.
C9_NonBypassedCallsCounted ==
  /\ indexQuota < 0 => stats = ZeroStats
  /\ indexQuota >= 0 =>
       /\ stats.TotOnBatchExecuteStartBeg = BatchCallsMade
       /\ stats.TotOnBatchExecuteStartEnd = BatchCallsDone

\* a bypassed call has returned
C9_Witness ==
  indexQuota < 0 /\ BatchCallsMade >= 1 /\ NoWorkerInside

\* ------------------------------------------------------------ C10
StatsNonDecreasing ==
  /\ stats'.TotWaitingIn >= stats.TotWaitingIn
  /\ stats'.TotWaitingOut >= stats.TotWaitingOut
  /\ stats'.TotOnBatchExecuteStartBeg >= stats.TotOnBatchExecuteStartBeg
  /\ stats'.TotOnBatchExecuteStartEnd >= stats.TotOnBatchExecuteStartEnd

\* C10: the four counters never decrease; End <= Beg and TotWaitingOut <=
\* TotWaitingIn in every state; End == Beg when no worker is inside
\* onBatchExecuteStart.
C10_StatsMonotone ==
  /\ [][StatsNonDecreasing]_vars
  /\ [](/\ stats.TotOnBatchExecuteStartEnd <= stats.TotOnBatchExecuteStartBeg
        /\ stats.TotWaitingOut <= stats.TotWaitingIn
        /\ NoWorkerInside =>
             stats.TotOnBatchExecuteStartEnd = stats.TotOnBatchExecuteStartBeg)

\* both workers went through the wait section and have returned
C10_Witness ==
  /\ NoWorkerInside
  /\ stats.TotOnBatchExecuteStartEnd = NumWorkers
  /\ stats.TotWaitingOut >= NumWorkers

\* ------------------------------------------------------------ C11
\* the predicate of the gate as the claim states it
GatePredicate ==
  /\ indexingMemoryLOCKED # 0
  /\ \/ indexQuota > 0 /\ curMemoryUsed + batchBytes > indexQuota
     \/ appQuota > 0 /\ curMemoryUsed + batchBytes > appQuota

\* C11: a worker past the entry of onBatchExecuteStart (indexQuota >= 0)
\* leaves only from an evaluation under the mutex that found the predicate
\* false, and enters the wait section exactly from one that found it true; so
\* with indexQuota == 0 and appQuota > 0 it blocks exactly when indexingMemory
\* # 0 and RSS + preIndexingMemory > appQuota.
C11_LeavesOnlyWhenNotOver ==
  /\ [](\A w \in Workers : InsideGate(w) => indexQuota >= 0)
  /\ [][\A w \in Workers :
          /\ (wpc'[w] = "end" /\ wpc[w] # "end") =>
               (wpc[w] = "check" /\ m = BatchT(w) /\ ~GatePredicate)
          /\ (wpc'[w] = "idle" /\ wpc[w] # "idle") => wpc[w] = "end"
          /\ (wpc[w] = "check" /\ wpc'[w] # "check") =>
               /\ wpc'[w] = "end" <=> ~GatePredicate
               /\ wpc'[w] \in {"send", "parked"} <=> GatePredicate
               /\ (indexQuota = 0 /\ appQuota > 0) =>
                    (wpc'[w] \in {"send", "parked"} <=>
                       (indexingMemoryLOCKED # 0 /\
                        curMemoryUsed + batchBytes > appQuota))]_vars

\* with indexQuota == 0 a worker that was blocked on appQuota has been let go
C11_Witness ==
  /\ indexQuota = 0
  /\ appQuota > 0
  /\ \E w \in Workers : wpc[w] = "end"
  /\ stats.TotWaitingOut >= 1

\* ------------------------------------------------------------ C12
\* every registered engine reports 0 bytes
AllEnginesEmpty == \A h \in indexes : engineSize[h] = 0

\* C12: an evaluation of the gate made while every registered engine (the
\* caller's own included) reports 0 bytes admits: the worker goes on to return
\* without entering the wait section, waiting, TotWaitingIn and the overquota
\* channel are untouched, whatever RSS and pre-indexing memory are.
C12_EmptyEnginesAdmit ==
  /\ [](\A w \in Workers : wpc[w] = "check" => m = BatchT(w))
  /\ [][\A w \in Workers :
          (wpc[w] = "check" /\ wpc'[w] # "check" /\ AllEnginesEmpty) =>
            /\ wpc'[w] = "end"
            /\ waiting' = waiting
            /\ stats'.TotWaitingIn = stats.TotWaitingIn
            /\ chLen' = chLen
            /\ cond' = cond]_vars

\* a worker was admitted without ever waiting, its engine registered and
\* empty, with RSS plus pre-indexing memory over both positive quotas
C12_Witness ==
  /\ indexQuota > 0
  /\ appQuota > 0
  /\ curMemoryUsed + batchBytes > appQuota
  /\ curMemoryUsed + batchBytes > indexQuota
  /\ indexes # {}
  /\ AllEnginesEmpty
  /\ stats.TotWaitingIn = 0
  /\ chLen = 0
  /\ \E w \in Workers : wpc[w] = "end" /\ HandleOf(w) \in indexes

\* ------------------------------------------------------------ C13
\* C13: onQueryStart(0, size) deciding under the mutex (so queryQuota >= 0)
\* with runningQueryUsed == 0 admits, for every size and RSS: afterwards
\* runningQueryUsed == size, and no overquota signal is sent by the call.
C13_FirstQueryAdmitted ==
  /\ [](\A q \in Queries : qpc[q] = "check" => queryQuota >= 0)
  /\ [][\A q \in Queries :
          (/\ qpc[q] = "check" /\ qpc'[q] # "check"
           /\ qdepth[q] = 0 /\ runningQueryUsed = 0) =>
            /\ qpc'[q] = "running"
            /\ runningQueryUsed' = qsize[q]
            /\ chLen' = chLen
            /\ qsent'[q] = 0]_vars

\* the only accounted query was admitted at depth 0 although RSS + size is
\* over queryQuota and appQuota, both positive
C13_Witness ==
  /\ queryQuota > 0
  /\ appQuota > 0
  /\ \E q \in Queries :
       /\ qpc[q] = "running"
       /\ qdepth[q] = 0
       /\ runningQueryUsed = qsize[q]
       /\ curMemoryUsed + qsize[q] > appQuota
       /\ curMemoryUsed + qsize[q] > queryQuota
       /\ qsent[q] = 0
       /\ \A p \in Queries \ {q} : qpc[p] \in {"idle", "lock"}

\* ------------------------------------------------------------ C14
\* C14: onQueryStart(depth, size) with depth # 0, deciding under the mutex
\* (queryQuota >= 0), admits whatever RSS, size and runningQueryUsed are, and
\* runningQueryUsed grows by exactly size; no overquota signal is sent.
C14_NestedAlwaysAdmitted ==
  /\ [](\A q \in Queries :
          (qdepth[q] # 0 /\ qpc[q] # "idle") => qpc[q] \notin {"send", "rejected"})
  /\ [][\A q \in Queries :
          (qpc[q] = "check" /\ qpc'[q] # "check" /\ qdepth[q] # 0) =>
            /\ qpc'[q] = "running"
            /\ runningQueryUsed' = runningQueryUsed + qsize[q]
            /\ chLen' = chLen
            /\ qsent'[q] = 0]_vars

\* a nested query runs next to an accounted depth-0 query, RSS + size over both
\* positive quotas
C14_Witness ==
  /\ queryQuota > 0
  /\ appQuota > 0
  /\ \E q \in Queries, p \in Queries :
       /\ q # p
       /\ qpc[q] = "running" /\ qdepth[q] # 0
       /\ qpc[p] = "running" /\ qdepth[p] = 0
       /\ runningQueryUsed = qsize[q] + qsize[p]
       /\ curMemoryUsed + qsize[q] > appQuota
       /\ curMemoryUsed + qsize[q] > queryQuota

\* ------------------------------------------------------------ C15
\* C15: with queryQuota < 0 every onQueryStart admits at its entry: no query
\* handler ever takes the mutex in onQueryStart, sends an overquota signal or
\* returns the rejection error.
C15_QueryBypassAdmits ==
  queryQuota < 0 =>
    \A q \in Queries :
      /\ qpc[q] \in {"idle", "running", "ending"}
      /\ qsent[q] = 0
      /\ m # QueryT(q)

\* with queryQuota < 0 two depth-0 queries run although RSS + size is over
\* the positive appQuota
C15_Witness ==
  /\ queryQuota < 0
  /\ appQuota > 0
  /\ \A q \in Queries :
       /\ qpc[q] = "running"
       /\ qdepth[q] = 0
       /\ curMemoryUsed + qsize[q] > appQuota

\* ------------------------------------------------------------ C16
\* no worker is or was in the wait section of onBatchExecuteStart
NoWorkerWaits ==
  /\ \A w \in Workers : wpc[w] \notin {"send", "parked", "woken"}
  /\ waiting = 0
  /\ stats.TotWaitingIn = 0

\* no query is being rejected by onQueryStart
NoQueryRejected == \A q \in Queries : qpc[q] \notin {"send", "rejected"}

\* C16 as claimed: for the quotas the constructor derives from any signed
\* ratios, appQuota < 0 bypasses indexing and querying: onBatchExecuteStart
\* never waits and onQueryStart never rejects.
C16_NegativeAppQuotaBypasses ==
  appQuota < 0 => (NoWorkerWaits /\ NoQueryRejected)

\* C16 as amended: appQuota < 0 switches off the appQuota test only. Indexing
\* never waits when moreover indexQuota <= 0 and querying never rejects when
\* moreover queryQuota <= 0; a positive indexQuota or queryQuota is enforced.
C16_NegativeAppQuotaDisablesAppTest ==
  /\ (appQuota < 0 /\ indexQuota <= 0) => NoWorkerWaits
  /\ (appQuota < 0 /\ queryQuota <= 0) => NoQueryRejected

\* appQuota < 0 with indexQuota == queryQuota == 0: a worker went through the
\* gate with its engine holding memory, and a depth-0 query was admitted
C16_Witness ==
  /\ appQuota < 0
  /\ indexQuota = 0
  /\ queryQuota = 0
  /\ \E w \in Workers :
       /\ wpc[w] = "end"
       /\ HandleOf(w) \in indexes
       /\ engineSize[HandleOf(w)] > 0
  /\ \E q \in Queries : qpc[q] = "running" /\ qdepth[q] = 0

\* ------------------------------------------------------------ C17
\* C17 (callers that do not pair their events): onQueryEnd(depth, size) with
\* size greater than runningQueryUsed leaves the accumulator at 0 instead of
\* wrapping, and otherwise subtracts size; so runningQueryUsed == 0, the escape
\* of the next depth-0 onQueryStart, is kept.
C17_ClampedAtZero ==
  [][\A q \in Queries :
       (qpc[q] = "ending" /\ qpc'[q] = "idle") =>
         runningQueryUsed' =
           (IF qsize[q] > runningQueryUsed THEN 0
            ELSE runningQueryUsed - qsize[q])]_vars

\* ------------------------------------------------------------ C18
\* worker w takes the mutex at the head of onBatchExecuteStart
TakesGateMutex(w) == wpc[w] = "lock" /\ wpc'[w] = "check"

\* onClose(harg) runs
CloseStep == hpc = "close" /\ hpc' = "idle"

\* C18: the registry changes only when a non-bypassed onBatchExecuteStart
\* takes the mutex, which adds the caller's handle and nothing else (no change
\* if it is present), and when onClose(h) runs, which removes h and nothing
\* else; both happen from a state with the mutex free. The caller's handle is
\* registered before its first evaluation: a worker that evaluates without
\* its handle in the registry has waited and was closed meanwhile. With
\* indexing bypassed the registry stays empty.
C18_RegistryLifecycle ==
  /\ [](indexQuota < 0 => indexes = {})
  /\ [](\A w \in Workers :
          (wpc[w] = "check" /\ HandleOf(w) \notin indexes) =>
            stats.TotWaitingOut >= 1)
  /\ [][/\ \A w \in Workers :
            /\ TakesGateMutex(w) =>
                 /\ m = Free /\ m' = BatchT(w)
                 /\ indexes' = indexes \cup {HandleOf(w)}
                 /\ indexQuota >= 0
            /\ (wpc'[w] = "check" /\ wpc[w] # "check") =>
                 wpc[w] \in {"lock", "woken"}
            /\ (wpc'[w] = "lock" /\ wpc[w] # "lock") => wpc[w] = "idle"
        /\ CloseStep => (m = Free /\ m' = Free /\ indexes' = indexes \ {harg})
        /\ indexes' # indexes =>
              ((\E w \in Workers : TakesGateMutex(w)) \/ CloseStep)]_vars

\* worker 1 re-registered its engine (no close was ever called) next to the
\* other engine, and is about to evaluate
C18_Witness ==
  /\ wcalls[1] = MaxRepeatCalls
  /\ wpc[1] = "check"
  /\ hcalls = 0
  /\ indexes = {HandleOf(w) : w \in Workers}
  /\ Cardinality(indexes) > 1

\* ------------------------------------------------------------ C19
\* C19: waiting >= 0 in every state; with the mutex free, waiting equals
\* TotWaitingIn - TotWaitingOut and the number of workers inside the wait
\* section (parked on the condition variable, or woken and reacquiring).
C19_WaitingCountsWaiters ==
  /\ waiting >= 0
  /\ m = Free =>
       /\ waiting = stats.TotWaitingIn - stats.TotWaitingOut
       /\ waiting = Cardinality({w \in Workers : InWaitSection(w)})
       /\ \A w \in Workers : InWaitSection(w) => wpc[w] \in {"parked", "woken"}

\* the mutex is free, one worker is parked again after a wake-up and the other
\* is woken and has not reacquired the mutex yet
C19_Witness ==
  /\ m = Free
  /\ waiting = 2
  /\ stats.TotWaitingOut >= 1
  /\ \E w \in Workers : wpc[w] = "parked"
  /\ \E w \in Workers : wpc[w] = "woken"

\* ------------------------------------------------------------ C20
\* a progress hook, onClose or onQueryEnd runs (Lock ... Unlock)
HookStep ==
  \/ hpc \in {"awake", "close"} /\ hpc' = "idle"
  \/ cpc = "hook" /\ cpc' = "away"
  \/ \E q \in Queries : qpc[q] = "ending" /\ qpc'[q] = "idle"

\* C20: whenever workers are suspended on the condition variable, waiting > 0
\* (waiting counts at least the suspended workers), so every hook that runs
\* wakes every suspended worker; a worker suspends only from its evaluation
\* with the mutex held throughout, and no hook runs between a worker's
\* evaluation and its suspension.
C20_NoLostWakeup ==
  /\ [](cond # {} => waiting > 0)
  /\ [](Cardinality(cond) <= waiting)
  /\ [](\A w \in Workers : (w \in cond <=> wpc[w] = "parked"))
  /\ [](\A w \in Workers : wpc[w] \in {"check", "send"} => m = BatchT(w))
  /\ [][/\ HookStep =>
            /\ m = Free
            /\ cond' = {}
            /\ \A w \in Workers :
                 /\ w \in cond => wpc'[w] = "woken"
                 /\ wpc[w] \notin {"check", "send"}
        /\ \A w \in Workers :
              (wpc'[w] = "parked" /\ wpc[w] # "parked") =>
                (m = BatchT(w) /\ wpc[w] \in {"check", "send"})]_vars

\* one broadcast has just woken every worker: all were suspended
C20_Witness ==
  /\ m = Free
  /\ \A w \in Workers : wpc[w] = "woken"
  /\ waiting = NumWorkers
  /\ stats.TotWaitingOut = 0

\* ------------------------------------------------------------ C21
\* awakeWaiters runs: onPersisterProgress, onMergerProgress,
\* onMemoryUsedDropped, or the receiver's call of one of them
ProgressStep ==
  \/ hpc = "awake" /\ hpc' = "idle"
  \/ cpc = "hook" /\ cpc' = "away"

\* a step of onQueryStart or onQueryEnd of some handler
QueryStep == \E q \in Queries : qpc'[q] # qpc[q]

\* C21: the progress hooks change none of the registry, runningQueryUsed,
\* waiting and the stats, whatever their arguments; onClose(h) changes the
\* registry only, by removing h; onQueryStart and onQueryEnd change
\* runningQueryUsed only; a hook that runs with waiting == 0 wakes nobody and
\* leaves the wait set, the workers, the mutex and the channel as they were.
C21_HookFrame ==
  [][/\ ProgressStep => UNCHANGED <<indexes, runningQueryUsed, waiting, stats>>
     /\ CloseStep =>
          /\ UNCHANGED <<runningQueryUsed, waiting, stats>>
          /\ indexes' \subseteq indexes
          /\ indexes \ indexes' \subseteq {harg}
     /\ QueryStep => UNCHANGED <<indexes, waiting, stats>>
     /\ (HookStep /\ waiting = 0) =>
          UNCHANGED <<cond, wpc, wcalls, m, chLen, waiting, stats>>]_vars

\* every hook call of the progress threads has run, with a worker inside the
\* gate and an engine registered, and nobody ever waited: each one ran with
\* waiting == 0
C21_Witness ==
  /\ hcalls = MaxHookCalls
  /\ hpc = "idle"
  /\ cpc # "hook"
  /\ stats.TotWaitingIn = 0
  /\ waiting = 0
  /\ indexes # {}
  /\ \E w \in Workers : InsideGate(w)

\* ------------------------------------------------------------ C22
\* C22: the helper goroutine of SearchInContext never stays blocked: once
\* started, its send on resultCh eventually completes and it terminates, also
\* when the caller has returned through the ctx.Done() case.
C22_GoroutineTerminates ==
  \A c \in Searches : [](gpc[c] \in {"query", "send"} => <>(gpc[c] = "done"))

====
